---- MODULE Spec2Model ----
(***************************************************************************)
(* A model of the GA4 reporting facade of src/modules/ga4/reports.py:      *)
(* the report-config registry (report_configs, add_report_config,          *)
(* get_predefined_report), the request assembler (run_report), the filter  *)
(* builders (create_filter_expression, create_combined_filter) and the     *)
(* response normaliser (process_report_to_dataframe).                      *)
(*                                                                         *)
(* Python exceptions are modelled as result records whose kind is the      *)
(* exception class the code raises (ValueError, IndexError, Exception).    *)
(***************************************************************************)
EXTENDS Integers, Sequences, FiniteSets, TLC

VARIABLES
  report_configs, \* GA4Reports.report_configs: name -> [dimensions, metrics]
  lastAdded,      \* history: per name, the lists of the most recent add (or the built-ins)
  pc,             \* position of the caller: "idle", "returned", "ready", "done"
  call,           \* the arguments of the call the caller has just made
  sent,           \* the requests this call handed to self.client.run_report
  result,         \* what the call returned or raised
  filters,        \* the caller's working list of FilterExpression objects
  fcall,          \* the last filter-builder call: its arguments and its result
  response,       \* a RunReportResponse handed to process_report_to_dataframe
  table           \* what process_report_to_dataframe returned or raised

vars == <<report_configs, lastAdded, pc, call, sent, result, filters, fcall,
          response, table>>

(***************************************************************************)
(* Bounds of the model.                                                    *)
(***************************************************************************)
MaxExtra == 2    \* longest additional_dimensions / additional_metrics list
MaxRanges == 1   \* longest date_ranges list given to run_report directly
MaxLeaves == 3   \* most field filters in the caller's working list
MaxRows == 2     \* most rows of a response

(***************************************************************************)
(* Helpers.                                                                *)
(***************************************************************************)
Contains(s, x) == \E i \in 1..Len(s) : s[i] = x

RECURSIVE SeqsUpTo(_, _)
SeqsUpTo(S, n) ==
  IF n = 0 THEN {<<>>}
  ELSE LET shorter == SeqsUpTo(S, n - 1)
       IN shorter \cup {Append(s, x) : s \in {t \in shorter : Len(t) = n - 1}, x \in S}

(***************************************************************************)
(* The registry: __init__ and _initialize_report_configs.                  *)
(***************************************************************************)
\* os.getenv("SESSION_PERFORMANCE_MARKETING_CHANNELS"): a dimension name the
\* deployment sets; the code treats it as an opaque name.
SESSION_PERFORMANCE_MARKETING_CHANNELS == "sessionDefaultChannelGroup"

property_id == "GOOGLE_ANALYTICS_PROPERTY"

_initialize_report_configs ==
  [n \in {"daily_kpis", "page_performance", "ecommerce"} |->
    CASE n = "daily_kpis" ->
           [dimensions |-> <<"date", SESSION_PERFORMANCE_MARKETING_CHANNELS>>,
            metrics |-> <<"totalUsers">>]
      [] n = "page_performance" ->
           [dimensions |-> <<"pageTitle", "pagePath", "fullPageUrl">>,
            metrics |-> <<"screenPageViews", "averageSessionDuration",
                          "bounceRate", "conversions">>]
      [] n = "ecommerce" ->
           [dimensions |-> <<"date", SESSION_PERFORMANCE_MARKETING_CHANNELS,
                             "eventName", "customEvent:event_category",
                             "customEvent:event_action", "customEvent:event_label">>,
            metrics |-> <<"totalUsers">>]]

(***************************************************************************)
(* Results and requests.                                                   *)
(***************************************************************************)
NoResult == [kind |-> "none", msg |-> ""]
Returned(kind) == [kind |-> kind, msg |-> ""]
Raised(kind, msg) == [kind |-> kind, msg |-> msg]

NoCall ==
  [op |-> "none", report_type |-> "", additional_dimensions |-> <<>>,
   additional_metrics |-> <<>>, date_ranges |-> <<>>, dimensions |-> <<>>,
   metrics |-> <<>>, dimension_filter |-> <<>>, limit |-> 0]

\* An outcome of a method of GA4Reports: what it returned or raised, the
\* requests it dispatched, and the registry it leaves behind.
Outcome(res, reqs, configs) ==
  [result |-> res, sent |-> reqs, report_configs |-> configs]

\* RunReportRequest(...) of run_report, with the optional dimension filter set
\* only when one is given (<<>> stands for None).  metric_filter and order_bys
\* are attached by the same two lines as dimension_filter; the calls modelled
\* here leave them at their default, None.
RunReportRequest(date_ranges, dimensions, metrics, dimension_filter, limit, offset) ==
  [property |-> "properties/" \o property_id,
   dimensions |-> dimensions,
   metrics |-> metrics,
   date_ranges |-> date_ranges,
   limit |-> limit,
   offset |-> offset,
   dimension_filter |-> dimension_filter]

\* run_report: assembles the request, hands it to self.client.run_report and
\* returns the response; an exception of the client is re-raised as Exception.
\* reply is what the external service does with the request.
run_report(configs, date_ranges, dimensions, metrics, dimension_filter, limit, reply) ==
  LET request == RunReportRequest(date_ranges, dimensions, metrics,
                                  dimension_filter, limit, 0)
  IN IF reply = "response"
     THEN Outcome(Returned("RunReportResponse"), <<request>>, configs)
     ELSE Outcome(Raised("Exception", "Error running GA4 report"), <<request>>, configs)

\* dimensions = config["dimensions"].copy(); dimensions.extend([d for d in
\* additional if d not in dimensions]): the comprehension is evaluated against
\* the copy before anything is appended.
MergeFields(base, additional) ==
  base \o SelectSeq(additional, LAMBDA d : ~Contains(base, d))

\* get_predefined_report with a lookup that creates a missing entry, as
\* dict.setdefault or a defaultdict would.
get_predefined_report_creating(configs, report_type, start_date, end_date, ad, am, df, limit, reply) ==
  LET created == [n \in DOMAIN configs \cup {report_type} |->
                    IF n \in DOMAIN configs THEN configs[n]
                    ELSE [dimensions |-> <<>>, metrics |-> <<>>]]
      config == created[report_type]
      date_ranges == <<[start_date |-> start_date, end_date |-> end_date]>>
  IN run_report(created, date_ranges, MergeFields(config.dimensions, ad),
                MergeFields(config.metrics, am), df, limit, reply)

\* get_predefined_report(report_type, start_date, end_date, additional_dimensions,
\* additional_metrics, dimension_filter, limit): ad and am are the two
\* additional lists, df the dimension filter.
get_predefined_report(configs, report_type, start_date, end_date, ad, am, df, limit, reply) ==
  IF report_type \notin DOMAIN configs
  THEN Outcome(Raised("ValueError", "Report type not found in predefined configurations"),
               <<>>, configs)
  ELSE LET config == configs[report_type]
           dimensions == MergeFields(config.dimensions, ad)
           metrics == MergeFields(config.metrics, am)
           date_ranges == <<[start_date |-> start_date, end_date |-> end_date]>>
       IN run_report(configs, date_ranges, dimensions, metrics, df, limit, reply)

\* add_report_config that keeps an entry already stored under the name, as
\* dict.setdefault would.
add_report_config_keeping(configs, name, dimensions, metrics) ==
  LET entry == [dimensions |-> dimensions, metrics |-> metrics]
  IN Outcome(Returned("None"), <<>>,
             [n \in DOMAIN configs \cup {name} |->
                IF n \in DOMAIN configs THEN configs[n] ELSE entry])

\* self.report_configs[name] = {"dimensions": dimensions, "metrics": metrics}
add_report_config(configs, name, dimensions, metrics) ==
  LET entry == [dimensions |-> dimensions, metrics |-> metrics]
  IN Outcome(Returned("None"), <<>>,
             [n \in DOMAIN configs \cup {name} |->
                IF n = name THEN entry ELSE configs[n]])

(***************************************************************************)
(* Inputs of the registry and request operations.                          *)
(***************************************************************************)
ReportTypes ==
  {"daily_kpis", "page_performance", "ecommerce", "device_report", "user_acquisition"}

AddNames == {"device_report", "daily_kpis"}

AddConfigs ==
  { [dimensions |-> <<"deviceCategory", "operatingSystem", "browser">>,
     metrics |-> <<"sessions", "screenPageViews", "conversions", "engagementRate">>],
    [dimensions |-> <<"browser", "date">>, metrics |-> <<"bounceRate">>],
    [dimensions |-> <<>>, metrics |-> <<>>] }

ExtraDimensions == SeqsUpTo({"date", "browser"}, MaxExtra)
ExtraMetrics == SeqsUpTo({"totalUsers", "bounceRate"}, MaxExtra)

\* Dates in YYYY-MM-DD form, in calendar order.
Dates == <<"2025-02-01", "2025-02-28", "2025-03-01">>
DateIndex(d) == CHOOSE i \in 1..Len(Dates) : Dates[i] = d
DateRanges ==
  { [start_date |-> "2025-02-01", end_date |-> "2025-02-28"],
    [start_date |-> "2025-03-01", end_date |-> "2025-02-01"] }

Limits == {-1, 0, 10000}
Replies == {"response", "error"}

\* dimension_filter: None (<<>>) or an expression, which run_report attaches
\* as it is given.
FilterArgs == {<<>>, <<"organic_filter">>}

(***************************************************************************)
(* Actions of the registry and request operations.                         *)
(***************************************************************************)
Finish(c, out) ==
  /\ pc' = "returned"
  /\ call' = c
  /\ sent' = out.sent
  /\ result' = out.result
  /\ report_configs' = out.report_configs

AddReportConfig ==
  /\ pc = "idle"
  /\ \E name \in AddNames, cfg \in AddConfigs :
       /\ Finish([NoCall EXCEPT !.op = "add_report_config", !.report_type = name,
                                !.dimensions = cfg.dimensions, !.metrics = cfg.metrics],
                 add_report_config(report_configs, name, cfg.dimensions, cfg.metrics))
       /\ lastAdded' = [n \in DOMAIN lastAdded \cup {name} |->
                          IF n = name THEN cfg ELSE lastAdded[n]]
  /\ UNCHANGED <<filters, fcall, response, table>>

GetPredefinedReport ==
  /\ pc = "idle"
  /\ \E report_type \in ReportTypes, dr \in DateRanges,
        ad \in ExtraDimensions, am \in ExtraMetrics, df \in FilterArgs,
        limit \in {0, 10000}, reply \in Replies :
       Finish([NoCall EXCEPT !.op = "get_predefined_report",
                             !.report_type = report_type,
                             !.additional_dimensions = ad,
                             !.additional_metrics = am,
                             !.date_ranges = <<dr>>,
                             !.dimension_filter = df,
                             !.limit = limit],
              get_predefined_report(report_configs, report_type, dr.start_date,
                                    dr.end_date, ad, am, df, limit, reply))
  /\ UNCHANGED <<lastAdded, filters, fcall, response, table>>

RunReport ==
  /\ pc = "idle"
  /\ \E date_ranges \in SeqsUpTo(DateRanges, MaxRanges),
        dimensions \in {<<>>, <<"deviceCategory", "browser">>},
        metrics \in {<<>>, <<"sessions">>},
        dimension_filter \in FilterArgs,
        limit \in Limits, reply \in Replies :
       Finish([NoCall EXCEPT !.op = "run_report",
                             !.date_ranges = date_ranges,
                             !.dimensions = dimensions,
                             !.metrics = metrics,
                             !.dimension_filter = dimension_filter,
                             !.limit = limit],
              run_report(report_configs, date_ranges, dimensions, metrics,
                         dimension_filter, limit, reply))
  /\ UNCHANGED <<lastAdded, filters, fcall, response, table>>

\* The caller takes the result (or catches the exception) and goes on.
Return ==
  /\ pc = "returned"
  /\ pc' = "idle"
  /\ call' = NoCall
  /\ sent' = <<>>
  /\ result' = NoResult
  /\ UNCHANGED <<report_configs, lastAdded, filters, fcall, response, table>>

NoFilterCall ==
  [op |-> "none", field_name |-> "", operator |-> "", value |-> [t |-> "str", s |-> "", n |-> 0],
   is_dimension |-> TRUE, negate |-> FALSE, inputs |-> <<>>,
   result |-> [kind |-> "none", msg |-> "", node |-> <<>>]]
NoResponse ==
  [dimension_headers |-> <<>>, metric_headers |-> <<>>, rows |-> <<>>]
NoTable == [kind |-> "none", msg |-> "", position |-> -1, columns |-> <<>>, rows |-> <<>>]

Init ==
  /\ report_configs = _initialize_report_configs
  /\ lastAdded = _initialize_report_configs
  /\ pc = "idle"
  /\ call = NoCall
  /\ sent = <<>>
  /\ result = NoResult
  /\ filters = <<>>
  /\ fcall = NoFilterCall
  /\ response = NoResponse
  /\ table = NoTable

Next == AddReportConfig \/ GetPredefinedReport \/ RunReport \/ Return

Spec == Init /\ [][Next]_vars

(***************************************************************************)
(* Values and conversions: str(value), float(value), pd.to_numeric.        *)
(***************************************************************************)
\* A Python value given as `value`: a str or an int.
StrValue(s) == [t |-> "str", s |-> s, n |-> 0]
IntValue(n) == [t |-> "int", s |-> "", n |-> n]

Digit == <<"0", "1", "2", "3", "4", "5", "6", "7", "8", "9">>

RECURSIVE Decimal(_)
Decimal(n) ==
  IF n < 10 THEN Digit[n + 1] ELSE Decimal(n \div 10) \o Digit[(n % 10) + 1]

\* str(value)
str(value) ==
  IF value.t = "str" THEN value.s
  ELSE IF value.n < 0 THEN "-" \o Decimal(-value.n) ELSE Decimal(value.n)

\* The numbers whose decimal form the parser is tried on.
MaxNumber == 120

\* Whether a string is the decimal form of a number, and the number it is.
IsNumeric(s) == \E n \in 0..MaxNumber : Decimal(n) = s
ParseNumber(s) == CHOOSE n \in 0..MaxNumber : Decimal(n) = s

(***************************************************************************)
(* Filter expressions.  A FilterExpression is a record                     *)
(*   expr        "filter", "not_expression", "and_group" or "or_group"     *)
(*   field_name  the field of a filter                                     *)
(*   one_filter  which member of the filter is set: "string_filter",       *)
(*               "numeric_filter", or "" when none is                      *)
(*   match       string_filter.match_type or numeric_filter.operation      *)
(*   value_s     string_filter.value                                       *)
(*   value_n     numeric_filter.value.double_value                         *)
(*   expressions the operand of not_expression, the members of a group     *)
(***************************************************************************)
Filter(field_name, one_filter, match, value_s, value_n) ==
  [expr |-> "filter", field_name |-> field_name, one_filter |-> one_filter,
   match |-> match, value_s |-> value_s, value_n |-> value_n, expressions |-> <<>>]

Group(expr, expressions) ==
  [expr |-> expr, field_name |-> "", one_filter |-> "", match |-> "",
   value_s |-> "", value_n |-> 0, expressions |-> expressions]

\* What a filter builder returned (node = <<expression>>) or raised (node = <<>>).
Built(node) == [kind |-> "FilterExpression", msg |-> "", node |-> <<node>>]
Failed(kind, msg) == [kind |-> kind, msg |-> msg, node |-> <<>>]
NotBuilt == [kind |-> "none", msg |-> "", node |-> <<>>]

\* The if/elif chains of create_filter_expression.
StringOperators ==
  {"EXACT", "CONTAINS", "BEGINS_WITH", "ENDS_WITH", "REGEXP", "FULL_REGEXP"}
NumericOperators == {"GREATER_THAN", "LESS_THAN", "EQUAL"}

Negate(negate, filter_expr) ==
  IF negate THEN Group("not_expression", <<filter_expr>>) ELSE filter_expr

create_filter_expression(field_name, operator, value, is_dimension, negate) ==
  IF is_dimension
  THEN IF operator \in StringOperators
       THEN Built(Negate(negate, Filter(field_name, "string_filter", operator, str(value), 0)))
       ELSE Built(Negate(negate, Filter(field_name, "", "", "", 0)))
  ELSE IF operator \in NumericOperators
       THEN IF value.t = "int"
            THEN Built(Negate(negate, Filter(field_name, "numeric_filter", operator, "", value.n)))
            ELSE IF IsNumeric(value.s)
            THEN Built(Negate(negate, Filter(field_name, "numeric_filter", operator, "",
                                             ParseNumber(value.s))))
            ELSE Failed("ValueError", "could not convert string to float")
       ELSE Built(Negate(negate, Filter(field_name, "", "", "", 0)))

\* Variants of create_combined_filter with a plausible slip: one that wraps a
\* single expression in a group, one that splices the members of a member group
\* of the same kind into the new group.
create_combined_filter_wrapping(fs, operator) ==
  IF fs = <<>> THEN Failed("ValueError", "Must provide at least one filter")
  ELSE IF operator = "AND" THEN Built(Group("and_group", fs))
  ELSE IF operator = "OR" THEN Built(Group("or_group", fs))
  ELSE Failed("ValueError", "Unsupported operator. Use 'AND' or 'OR'.")

RECURSIVE Spliced(_, _)
Spliced(expr, fs) ==
  IF fs = <<>> THEN <<>>
  ELSE (IF Head(fs).expr = expr THEN Head(fs).expressions ELSE <<Head(fs)>>)
       \o Spliced(expr, Tail(fs))

create_combined_filter_flattening(fs, operator) ==
  IF fs = <<>> THEN Failed("ValueError", "Must provide at least one filter")
  ELSE IF Len(fs) = 1 THEN Built(fs[1])
  ELSE IF operator = "AND" THEN Built(Group("and_group", Spliced("and_group", fs)))
  ELSE IF operator = "OR" THEN Built(Group("or_group", Spliced("or_group", fs)))
  ELSE Failed("ValueError", "Unsupported operator. Use 'AND' or 'OR'.")

create_combined_filter(fs, operator) ==
  IF fs = <<>> THEN Failed("ValueError", "Must provide at least one filter")
  ELSE IF Len(fs) = 1 THEN Built(fs[1])
  ELSE IF operator = "AND" THEN Built(Group("and_group", fs))
  ELSE IF operator = "OR" THEN Built(Group("or_group", fs))
  ELSE Failed("ValueError", "Unsupported operator. Use 'AND' or 'OR'.")

(***************************************************************************)
(* The filter builders, called by a caller that keeps a working list of    *)
(* expressions: it builds field filters, and combines the tail of the list *)
(* into one expression that takes the tail's place.                        *)
(***************************************************************************)
FilterCall(op, field_name, operator, value, is_dimension, negate, inputs, res) ==
  [op |-> op, field_name |-> field_name, operator |-> operator, value |-> value,
   is_dimension |-> is_dimension, negate |-> negate, inputs |-> inputs, result |-> res]

RECURSIVE LeafCount(_)
RECURSIVE LeafCountAll(_)
LeafCount(node) ==
  IF node.expr = "filter" THEN 1 ELSE LeafCountAll(node.expressions)
LeafCountAll(nodes) ==
  IF nodes = <<>> THEN 0 ELSE LeafCount(Head(nodes)) + LeafCountAll(Tail(nodes))

\* The calls of test.py and example.py, and one on a metric.
CallerFilters ==
  { <<"pagePath", "CONTAINS", StrValue("/payment-method"), TRUE, TRUE>>,
    <<"eventName", "EXACT", StrValue("page_view"), TRUE, FALSE>>,
    <<"sessions", "GREATER_THAN", IntValue(100), FALSE, FALSE>> }

CombineOperators == {"AND", "OR", "XOR"}

CreateFilterExpression ==
  /\ LeafCountAll(filters) < MaxLeaves
  /\ \E a \in CallerFilters :
       LET res == create_filter_expression(a[1], a[2], a[3], a[4], a[5])
       IN /\ fcall' = FilterCall("create_filter_expression", a[1], a[2], a[3], a[4], a[5],
                                 <<>>, res)
          /\ filters' = filters \o res.node
  /\ UNCHANGED <<report_configs, lastAdded, pc, call, sent, result, response, table>>

CreateCombinedFilter ==
  /\ \E k \in 1..(Len(filters) + 1), operator \in CombineOperators :
       LET inputs == SubSeq(filters, k, Len(filters))
           res == create_combined_filter(inputs, operator)
       IN /\ fcall' = FilterCall("create_combined_filter", "", operator, StrValue(""),
                                 TRUE, FALSE, inputs, res)
          /\ filters' = IF res.node = <<>> THEN filters
                        ELSE SubSeq(filters, 1, k - 1) \o res.node
  /\ UNCHANGED <<report_configs, lastAdded, pc, call, sent, result, response, table>>

FilterNext == CreateFilterExpression \/ CreateCombinedFilter

FilterSpec == Init /\ [][FilterNext]_vars

(***************************************************************************)
(* create_filter_expression alone, on every kind of argument.              *)
(***************************************************************************)
FieldNames == {"pagePath", "sessions"}
Operators == StringOperators \cup NumericOperators \cup {"IN_LIST", "exact"}
Values == {StrValue("x"), StrValue("100"), IntValue(100)}

PredicateInit ==
  /\ report_configs = _initialize_report_configs
  /\ lastAdded = _initialize_report_configs
  /\ pc = "ready"
  /\ call = NoCall
  /\ sent = <<>>
  /\ result = NoResult
  /\ filters = <<>>
  /\ \E f \in FieldNames, o \in Operators, v \in Values, d \in BOOLEAN, n \in BOOLEAN :
       fcall = FilterCall("create_filter_expression", f, o, v, d, n, <<>>, NotBuilt)
  /\ response = NoResponse
  /\ table = NoTable

ApplyCreateFilterExpression ==
  /\ pc = "ready"
  /\ pc' = "done"
  /\ fcall' = [fcall EXCEPT !.result =
                 create_filter_expression(fcall.field_name, fcall.operator, fcall.value,
                                          fcall.is_dimension, fcall.negate)]
  /\ UNCHANGED <<report_configs, lastAdded, call, sent, result, filters, response, table>>

PredicateSpec == PredicateInit /\ [][ApplyCreateFilterExpression]_vars

(***************************************************************************)
(* The response normaliser.  A response holds dimension_headers and        *)
(* metric_headers (names, all distinct, as the service returns them) and   *)
(* rows, each with dimension_values and metric_values (strings).  A cell   *)
(* of the DataFrame is a string, a number, or NaN where the row's dict has *)
(* no entry for the column.                                                *)
(***************************************************************************)
StrCell(s) == [t |-> "str", s |-> s, n |-> 0]
NumCell(n) == [t |-> "num", s |-> "", n |-> n]
NaN == [t |-> "nan", s |-> "", n |-> 0]

DataFrame(columns, rows) ==
  [kind |-> "DataFrame", msg |-> "", position |-> -1, columns |-> columns, rows |-> rows]
RaisedAt(kind, msg, position) ==
  [kind |-> kind, msg |-> msg, position |-> position, columns |-> <<>>, rows |-> <<>>]

Names(headers) == {headers[i] : i \in 1..Len(headers)}
IndexOf(headers, h) == CHOOSE i \in 1..Len(headers) : headers[i] = h

\* row_data of one row: row_data[headers[i]] = values[i].value for every value
\* the row holds; a header the row has no value for gets no entry, and the
\* DataFrame constructor fills the cell with NaN.
RowData(dimension_headers, metric_headers, row) ==
  [h \in Names(dimension_headers) \cup Names(metric_headers) |->
    IF h \in Names(dimension_headers)
    THEN IF IndexOf(dimension_headers, h) <= Len(row.dimension_values)
         THEN StrCell(row.dimension_values[IndexOf(dimension_headers, h)])
         ELSE NaN
    ELSE IF IndexOf(metric_headers, h) <= Len(row.metric_values)
         THEN StrCell(row.metric_values[IndexOf(metric_headers, h)])
         ELSE NaN]

\* dimension_headers[i] / metric_headers[i] with i past the headers: IndexError.
IndexOutOfRange(dimension_headers, metric_headers, rows) ==
  \E r \in 1..Len(rows) :
    \/ Len(rows[r].dimension_values) > Len(dimension_headers)
    \/ Len(rows[r].metric_values) > Len(metric_headers)

\* pd.to_numeric with errors="coerce": what cannot be parsed becomes NaN.
to_numeric_coerce(column) ==
  [ok |-> TRUE, position |-> -1,
   values |-> [r \in 1..Len(column) |->
                 IF column[r].t = "str"
                 THEN IF IsNumeric(column[r].s) THEN NumCell(ParseNumber(column[r].s)) ELSE NaN
                 ELSE column[r]]]

\* pd.to_numeric(df[metric]) on a column of cells: numeric strings become
\* numbers, NaN stays, and the first string that is no number raises
\* ValueError, which names its position in the column.
to_numeric(column) ==
  LET bad == {r \in 1..Len(column) : column[r].t = "str" /\ ~IsNumeric(column[r].s)}
  IN IF bad # {}
     THEN [ok |-> FALSE, position |-> (CHOOSE r \in bad : \A q \in bad : r <= q) - 1,
           values |-> <<>>]
     ELSE [ok |-> TRUE, position |-> -1,
           values |-> [r \in 1..Len(column) |->
                         IF column[r].t = "str" THEN NumCell(ParseNumber(column[r].s))
                         ELSE column[r]]]

\* The columns converted with every column converted, dimensions included.
NumericColumnsAll(dimension_headers, metric_headers) == dimension_headers \o metric_headers

\* for metric in metric_headers: the columns that are converted.
NumericColumns(dimension_headers, metric_headers) == metric_headers

\* all_headers = dimension_headers + metric_headers
AllHeaders(dimension_headers, metric_headers) == dimension_headers \o metric_headers

process_report_to_dataframe(resp) ==
  LET dimension_headers == resp.dimension_headers
      metric_headers == resp.metric_headers
      all_headers == AllHeaders(dimension_headers, metric_headers)
      data == [r \in 1..Len(resp.rows) |->
                 RowData(dimension_headers, metric_headers, resp.rows[r])]
      numeric == NumericColumns(dimension_headers, metric_headers)
      Column(h) == [r \in 1..Len(data) |-> data[r][h]]
      failing == {j \in 1..Len(numeric) : ~to_numeric(Column(numeric[j])).ok}
      Converted(h) == IF Contains(numeric, h) THEN to_numeric(Column(h)).values ELSE Column(h)
  IN IF IndexOutOfRange(dimension_headers, metric_headers, resp.rows)
     THEN RaisedAt("IndexError", "list index out of range", -1)
     ELSE IF failing # {}
     THEN LET j == CHOOSE k \in failing : \A q \in failing : k <= q
          IN RaisedAt("ValueError", "Unable to parse string at position",
                      to_numeric(Column(numeric[j])).position)
     ELSE DataFrame(all_headers,
                    [r \in 1..Len(data) |-> [h \in Names(all_headers) |-> Converted(h)[r]]])

\* The responses the normaliser is given.
Headers ==
  { [dimension_headers |-> <<"deviceCategory">>, metric_headers |-> <<"sessions">>],
    [dimension_headers |-> <<"postalCode", "deviceCategory">>,
     metric_headers |-> <<"sessions", "bounceRate">>],
    [dimension_headers |-> <<>>, metric_headers |-> <<"sessions">>],
    [dimension_headers |-> <<"deviceCategory">>, metric_headers |-> <<>>] }

DimensionValues ==
  {<<>>, <<"mobile">>, <<"90210">>, <<"90210", "mobile">>, <<"mobile", "90210", "desktop">>}
MetricValues ==
  {<<>>, <<"42">>, <<"N/A">>, <<"42", "7">>, <<"7", "N/A">>, <<"42", "7", "7">>}

Rows == [dimension_values : DimensionValues, metric_values : MetricValues]

Responses ==
  { [dimension_headers |-> h.dimension_headers, metric_headers |-> h.metric_headers,
     rows |-> rows] : h \in Headers, rows \in SeqsUpTo(Rows, MaxRows) }

NormalizeInit ==
  /\ report_configs = _initialize_report_configs
  /\ lastAdded = _initialize_report_configs
  /\ pc = "ready"
  /\ call = NoCall
  /\ sent = <<>>
  /\ result = NoResult
  /\ filters = <<>>
  /\ fcall = NoFilterCall
  /\ response \in Responses
  /\ table = NoTable

ProcessReportToDataframe ==
  /\ pc = "ready"
  /\ pc' = "done"
  /\ table' = process_report_to_dataframe(response)
  /\ UNCHANGED <<report_configs, lastAdded, call, sent, result, filters, fcall, response>>

NormalizeSpec == NormalizeInit /\ [][ProcessReportToDataframe]_vars

(***************************************************************************)
(* Claims about the registry and the request assembler, under Spec.        *)
(***************************************************************************)
RECURSIVE Dedupe(_)
Dedupe(s) ==
  IF s = <<>> THEN <<>>
  ELSE LET front == Dedupe(SubSeq(s, 1, Len(s) - 1))
           x == s[Len(s)]
       IN IF Contains(front, x) THEN front ELSE Append(front, x)

NoDuplicates(s) == \A i, j \in 1..Len(s) : i # j => s[i] # s[j]

NotIn(base, extra) == SelectSeq(extra, LAMBDA d : ~Contains(base, d))

Resolved ==
  /\ pc = "returned"
  /\ call.op = "get_predefined_report"
  /\ call.report_type \in DOMAIN report_configs

\* C1: for every registered template with base lists B and every list E of
\* additional fields, the dimension list (and the metric list) that
\* get_predefined_report passes on is dedupe(B ++ filter(E, not in B)) and
\* holds no duplicates.
C1_MergeIsDedupe ==
  Resolved =>
    LET B == report_configs[call.report_type]
        req == sent[1]
    IN /\ req.dimensions =
            Dedupe(B.dimensions \o NotIn(B.dimensions, call.additional_dimensions))
       /\ req.metrics =
            Dedupe(B.metrics \o NotIn(B.metrics, call.additional_metrics))
       /\ NoDuplicates(req.dimensions)
       /\ NoDuplicates(req.metrics)

\* The input of the call is invalid in the sense of the request contract:
\* no date range, a range that ends before it starts, no field at all, or a
\* limit that is not positive.
InvalidInput ==
  \/ call.date_ranges = <<>>
  \/ \E i \in 1..Len(call.date_ranges) :
       DateIndex(call.date_ranges[i].start_date) > DateIndex(call.date_ranges[i].end_date)
  \/ call.op = "run_report" /\ call.dimensions = <<>> /\ call.metrics = <<>>
  \/ call.limit <= 0

\* C2: a run_report call with invalid input fails with a validation error and
\* dispatches no request to the external service.
C2_InvalidInputNeverDispatched ==
  (pc = "returned" /\ call.op = "run_report" /\ InvalidInput) =>
    /\ sent = <<>>
    /\ result.kind = "ValueError"

\* What one step may do to the registry: remove nothing; a resolve or a
\* run_report changes nothing; an add sets the entry under its name to exactly
\* the lists given and changes no other entry.
FrameStep ==
  /\ DOMAIN report_configs \subseteq DOMAIN report_configs'
  /\ call'.op = "get_predefined_report" => report_configs' = report_configs
  /\ call'.op = "run_report" => report_configs' = report_configs
  /\ call'.op = "add_report_config" =>
       /\ DOMAIN report_configs' = DOMAIN report_configs \cup {call'.report_type}
       /\ report_configs'[call'.report_type] =
            [dimensions |-> call'.dimensions, metrics |-> call'.metrics]
       /\ \A n \in DOMAIN report_configs :
            n # call'.report_type => report_configs'[n] = report_configs[n]

\* A resolve without additional fields passes on the lists of the most recent
\* add for the name (the built-in lists when there was none).
ResolveReturnsLatest ==
  (/\ pc = "returned"
   /\ call.op = "get_predefined_report"
   /\ call.report_type \in DOMAIN lastAdded
   /\ call.additional_dimensions = <<>>
   /\ call.additional_metrics = <<>>) =>
    /\ Len(sent) = 1
    /\ sent[1].dimensions = lastAdded[call.report_type].dimensions
    /\ sent[1].metrics = lastAdded[call.report_type].metrics

\* C7: get_predefined_report leaves every stored template unchanged,
\* add_report_config changes only the entry under its name and sets it to
\* exactly the given lists, no template is ever removed, and a resolve without
\* additional fields passes on the lists of the most recent add for that name
\* (or the built-in ones).
C7_RegistryFrame == [][FrameStep]_vars /\ []ResolveReturnsLatest

\* A replaced built-in template has been resolved without additional fields.
C7_Witness ==
  /\ pc = "returned"
  /\ call.op = "get_predefined_report"
  /\ call.report_type = "daily_kpis"
  /\ call.additional_dimensions = <<>>
  /\ call.additional_metrics = <<>>
  /\ "device_report" \in DOMAIN report_configs
  /\ report_configs["daily_kpis"] # _initialize_report_configs["daily_kpis"]
  /\ Len(sent) = 1
  /\ sent[1].dimensions = <<"browser", "date">>

AllowedOperators(is_dimension) ==
  IF is_dimension
  THEN {"EXACT", "CONTAINS", "BEGINS_WITH", "ENDS_WITH", "REGEXP", "FULL_REGEXP"}
  ELSE {"GREATER_THAN", "LESS_THAN", "EQUAL"}

\* C3: create_filter_expression fails, returning no filter node, whenever the
\* operator is outside the set allowed for the kind of field (checked under
\* PredicateSpec).
C3_UnsupportedOperatorFails ==
  (/\ pc = "done"
   /\ fcall.op = "create_filter_expression"
   /\ fcall.operator \notin AllowedOperators(fcall.is_dimension)) =>
    /\ fcall.result.kind = "ValueError"
    /\ fcall.result.node = <<>>

Combined == fcall.op = "create_combined_filter"

\* C6: create_combined_filter on a list of exactly one expression, with AND or
\* OR, returns that expression itself, wrapped in no group (under FilterSpec).
C6_SingleIsIdentity ==
  (Combined /\ Len(fcall.inputs) = 1 /\ fcall.operator \in {"AND", "OR"}) =>
    /\ fcall.result.kind = "FilterExpression"
    /\ fcall.result.node = <<fcall.inputs[1]>>

\* A single field filter has been combined with OR.
C6_Witness ==
  /\ Combined
  /\ Len(fcall.inputs) = 1
  /\ fcall.operator = "OR"
  /\ fcall.inputs[1].expr = "filter"
  /\ fcall.result.node = <<fcall.inputs[1]>>
  /\ filters = <<fcall.inputs[1]>>

\* C10: create_combined_filter on two or more expressions, with AND or OR,
\* returns one group of that kind whose members are the given expressions, all
\* of them, in the given order and as given; a member that is a group of the
\* same kind stays one member (under FilterSpec).
C10_GroupKeepsMembers ==
  (Combined /\ Len(fcall.inputs) >= 2 /\ fcall.operator \in {"AND", "OR"}) =>
    /\ fcall.result.kind = "FilterExpression"
    /\ Len(fcall.result.node) = 1
    /\ fcall.result.node[1].expr =
         (IF fcall.operator = "AND" THEN "and_group" ELSE "or_group")
    /\ fcall.result.node[1].expressions = fcall.inputs
    /\ Len(fcall.result.node[1].expressions) = Len(fcall.inputs)

\* An AND group and a field filter have been combined with AND: the group is
\* the first of the two members of the result.
C10_Witness ==
  /\ Combined
  /\ fcall.operator = "AND"
  /\ Len(fcall.inputs) = 2
  /\ fcall.inputs[1].expr = "and_group"
  /\ fcall.inputs[2].expr = "filter"
  /\ Len(fcall.result.node) = 1
  /\ fcall.result.node[1].expr = "and_group"
  /\ Len(fcall.result.node[1].expressions) = 2
  /\ fcall.result.node[1].expressions[1].expr = "and_group"

(***************************************************************************)
(* Claims about the response normaliser, under NormalizeSpec.              *)
(***************************************************************************)
Normalized == pc = "done" /\ table.kind # "none"

RowCount == Len(response.rows)

\* Some row's number of dimension (metric) values differs from the number of
\* dimension (metric) headers.
LengthMismatch ==
  \E r \in 1..RowCount :
    \/ Len(response.rows[r].dimension_values) # Len(response.dimension_headers)
    \/ Len(response.rows[r].metric_values) # Len(response.metric_headers)

TooManyValues ==
  \E r \in 1..RowCount :
    \/ Len(response.rows[r].dimension_values) > Len(response.dimension_headers)
    \/ Len(response.rows[r].metric_values) > Len(response.metric_headers)

\* The metric values of the responses that are numbers, and the numbers.
LooksNumeric(s) == s \in {"42", "7"}
NumberOf(s) == IF s = "42" THEN 42 ELSE 7

\* The rows that hold a value that is no number in metric column j (a column
\* of the response: j is at most the number of metric headers).
NotNumericIn(j) ==
  {r \in 1..RowCount : /\ j <= Len(response.metric_headers)
                       /\ j <= Len(response.rows[r].metric_values)
                       /\ ~LooksNumeric(response.rows[r].metric_values[j])}

MetricColumns == 1..Len(response.metric_headers)

NonNumericMetric == \E j \in MetricColumns : NotNumericIn(j) # {}

Least(S) == CHOOSE x \in S : \A y \in S : x <= y

\* C4: a response in which some row has fewer or more values than headers
\* makes process_report_to_dataframe fail; no table comes back.
C4_MismatchFails ==
  (Normalized /\ LengthMismatch) => table.kind # "DataFrame"

WellFormed ==
  /\ ~LengthMismatch
  /\ ~NonNumericMetric

\* C9: for a well-formed response the table's columns are the dimension
\* headers followed by the metric headers, in the response's order, there is
\* one row per response row in the same order, each cell holds the value at the
\* same position of that row, metric cells are numbers and dimension cells are
\* strings even when they look like numbers.
C9_WellFormedTable ==
  (Normalized /\ WellFormed) =>
    /\ table.kind = "DataFrame"
    /\ table.columns = response.dimension_headers \o response.metric_headers
    /\ Len(table.rows) = RowCount
    /\ \A r \in 1..RowCount :
         /\ DOMAIN table.rows[r] =
              Names(response.dimension_headers) \cup Names(response.metric_headers)
         /\ \A i \in 1..Len(response.dimension_headers) :
              table.rows[r][response.dimension_headers[i]] =
                [t |-> "str", s |-> response.rows[r].dimension_values[i], n |-> 0]
         /\ \A j \in 1..Len(response.metric_headers) :
              table.rows[r][response.metric_headers[j]] =
                [t |-> "num", s |-> "", n |-> NumberOf(response.rows[r].metric_values[j])]

\* A well-formed response of two rows, two dimensions and two metrics, with a
\* dimension value that looks like a number, has become a table.
C9_Witness ==
  /\ Normalized
  /\ WellFormed
  /\ RowCount = 2
  /\ response.dimension_headers = <<"postalCode", "deviceCategory">>
  /\ response.metric_headers = <<"sessions", "bounceRate">>
  /\ table.kind = "DataFrame"
  /\ table.columns = <<"postalCode", "deviceCategory", "sessions", "bounceRate">>
  /\ table.rows[1]["postalCode"] = [t |-> "str", s |-> "90210", n |-> 0]
  /\ table.rows[2]["sessions"] = [t |-> "num", s |-> "", n |-> 42]
  /\ table.rows[2]["bounceRate"] = [t |-> "num", s |-> "", n |-> 7]

====
